---- MODULE Spec2Model ----
(***************************************************************************)
(* Model of src/app.py: the login / logout / "who am I" service backed by  *)
(* the in-memory tables fake_users_db and active_tokens.                   *)
(*                                                                         *)
(* The three endpoints are plain `def` handlers, which the framework runs  *)
(* on a thread pool: several requests may be in flight at once, and a      *)
(* thread switch may fall between any two accesses to active_tokens.  Each *)
(* access to the dict (get, `in`, store, del) is a single atomic step.     *)
(***************************************************************************)
EXTENDS Integers, FiniteSets, Sequences, Bags, TLC

\* ------------------------------------------------------------------ bounds
NumWorkers == 2      \* request threads that may be in flight together
NumTokens  == 2      \* distinct values secrets.token_urlsafe is drawn from
MaxTime    == 2      \* last tick of the clock read by datetime.utcnow()

\* Session lifetime in clock ticks (SESSION_TTL_SECONDS of the specification;
\* the source defines no lifetime).
TTL == 1

Tokens  == 1..NumTokens

\* ------------------------------------------------------- request inputs
Usernames == {"alice", "bob"}
Passwords == {"wonderland", "wrong"}

\* --------------------------------------------------------------- state
VARIABLES
    fake_users_db,   \* the user store: username -> [username, password]
    active_tokens,   \* the token store: token -> [username, created_at]
    now,             \* the clock behind datetime.utcnow()
    inflight,        \* the bag of requests in flight: each a handler's position,
                     \*          its arguments and local variables, its response
    issuer,          \* history: token -> usernames a login ever returned it to
    live             \* history: token -> record of its latest login, dropped
                     \*          when a logout of the token succeeds

vars == <<fake_users_db, active_tokens, now, inflight, issuer, live>>

\* The in-memory user store as the module creates it, lines 15-20.
StaticUsers == [u \in {"alice"} |-> [username |-> "alice", password |-> "wonderland"]]

\* Python's None for a looked-up record.
None == [username |-> "", created_at |-> -1]

NoResp == [status |-> 0, detail |-> "", value |-> ""]
NewReq == [pc |-> "start", op |-> "", username |-> "", password |-> "",
           token |-> 0, token_data |-> None, resp |-> NoResp]

\* ------------------------------------------------------------ responses
\* HTTPException(401, "Incorrect username or password")
InvalidCredentials == [status |-> 401, detail |-> "Incorrect username or password", value |-> ""]
\* HTTPException(401, "Invalid or expired token")
InvalidToken == [status |-> 401, detail |-> "Invalid or expired token", value |-> ""]
\* An exception no handler catches: the server answers 500.
InternalError == [status |-> 500, detail |-> "Internal Server Error", value |-> ""]
\* {"access_token": token, "token_type": "bearer"}
TokenResponse(token) == [status |-> 200, detail |-> "bearer", value |-> ToString(token)]
\* User(username=...)
UserResponse(username) == [status |-> 200, detail |-> "", value |-> username]
\* {"message": "Successfully logged out."}
LoggedOut == [status |-> 200, detail |-> "", value |-> "Successfully logged out."]

\* ------------------------------------------------------ dict operations
\* d.get(k) gone wrong: a record read while half written
DictGetTorn(d, k) ==
    IF k \in DOMAIN d THEN [username |-> "", created_at |-> d[k].created_at] ELSE None

\* d.get(k): the value, or None
DictGet(d, k) == IF k \in DOMAIN d THEN d[k] ELSE None

\* d.get(k) gone wrong: d.pop(k, None), which removes the key it reads
DictAfterPop(d, k) == [x \in DOMAIN d \ {k} |-> d[x]]

\* d.get(k) gone wrong: d.setdefault(k, {...}), which inserts the key it misses
DictAfterSetdefault(d, k) ==
    [x \in DOMAIN d \cup {k} |->
        IF x \in DOMAIN d THEN d[x] ELSE [username |-> k, password |-> ""]]

\* k in d
DictHas(d, k) == k \in DOMAIN d

\* d[k] = v gone wrong: d = {k: v}, which drops every other key
DictStoreOnly(d, k, v) == [x \in {k} |-> v]

\* d[k] = v: insert or overwrite
DictStore(d, k, v) == [x \in DOMAIN d \cup {k} |-> IF x = k THEN v ELSE d[x]]

\* del d[k] gone wrong: the whole dict is emptied
DictClear(d, k) == <<>>

\* del d[k] gone wrong: nothing is removed
DictKeep(d, k) == d

\* del d[k] gone wrong: every session of the user of d[k] is removed
DictDelUser(d, k) ==
    [x \in {y \in DOMAIN d : d[y].username # d[k].username} |-> d[x]]

\* del d[k], for k a key of d
DictDel(d, k) == [x \in DOMAIN d \ {k} |-> d[x]]

\* ------------------------------------------------------ requests in flight
\* a worker thread is free to take a request
Free == BagCardinality(inflight) < NumWorkers

\* the requests at a position of their handler
At(pc) == {r \in BagToSet(inflight) : r.pc = pc}

\* a request enters, moves on, leaves
Start(r) == inflight (+) SetToBag({r})
Move(r, r2) == (inflight (-) SetToBag({r})) (+) SetToBag({r2})
Leave(r) == inflight (-) SetToBag({r})

\* the handler has returned or raised: the response is ready to be sent
Answer(r, resp) == [r EXCEPT !.pc = "respond", !.token_data = None, !.resp = resp]

\* ---------------------------------------------------------------- login
\* the user store after `fake_users_db.get(form_data.username)`, line 42: a read
UsersAfterGet(db, username) == db

\* the credential test gone wrong: the password is not compared
LoginRejectedUserOnly(username, password) == username \notin DOMAIN fake_users_db

\* `not user or user["password"] != form_data.password`
LoginRejected(username, password) ==
    IF username \notin DOMAIN fake_users_db
    THEN TRUE
    ELSE fake_users_db[username].password # password

\* the answer to refused credentials gone wrong: it tells an unknown user apart
LoginErrorLeaky(username, password) ==
    IF username \notin DOMAIN fake_users_db
    THEN [status |-> 401, detail |-> "Unknown user", value |-> ""]
    ELSE InvalidCredentials

\* the answer to refused credentials, lines 44-47
LoginError(username, password) == InvalidCredentials

\* the outcomes of secrets.token_urlsafe(32): any token, whatever the table holds
DrawToken(table) == Tokens

\* the stored record gone wrong: the wrong field of the user is copied
SessionRecordSecret(username, t) ==
    [username |-> fake_users_db[username].password, created_at |-> t]

\* the stored record gone wrong: a value that tests false is stored
SessionRecordFalsy(username, t) == None

\* the record stored for a new session, lines 50-53
SessionRecord(username, t) ==
    [username |-> fake_users_db[username].username, created_at |-> t]

\* login, lines 42-47: the credentials are refused
LoginFail ==
    /\ Free
    /\ \E u \in Usernames, p \in Passwords :
         /\ LoginRejected(u, p)
         /\ fake_users_db' = UsersAfterGet(fake_users_db, u)
         /\ inflight' = Start(Answer([NewReq EXCEPT !.op = "login", !.username = u,
                                                    !.password = p],
                                     LoginError(u, p)))
    /\ UNCHANGED <<active_tokens, now, issuer, live>>

\* login, lines 42-49: the credentials are accepted and a token is drawn
LoginDraw ==
    /\ Free
    /\ \E u \in Usernames, p \in Passwords, t \in DrawToken(active_tokens) :
         /\ ~LoginRejected(u, p)
         /\ fake_users_db' = UsersAfterGet(fake_users_db, u)
         /\ inflight' = Start([NewReq EXCEPT !.pc = "login_store", !.op = "login",
                                             !.username = u, !.password = p, !.token = t])
    /\ UNCHANGED <<active_tokens, now, issuer, live>>

\* login, lines 50-54: the session is stored and the token returned
LoginStore ==
    \E r \in At("login_store") :
      LET t   == r.token
          rec == SessionRecord(r.username, now)
      IN /\ active_tokens' = DictStore(active_tokens, t, rec)
         /\ issuer' = [issuer EXCEPT ![t] = @ \cup {r.username}]
         /\ live' = [x \in DOMAIN live \cup {t} |->
                      IF x = t THEN [username |-> r.username, created_at |-> now]
                      ELSE live[x]]
         /\ inflight' = Move(r, Answer(r, TokenResponse(t)))
         /\ UNCHANGED <<fake_users_db, now>>

\* ----------------------------------------------------- get_current_user
\* lines 61-66: the answer for a looked-up record
CurrentUser(token_data) ==
    IF token_data = None THEN InvalidToken ELSE UserResponse(token_data.username)

\* GET /me as one call on the table
whoami(token) == CurrentUser(DictGet(active_tokens, token))

\* the session table after `active_tokens.get(token)`, line 60: a read
TableAfterGet(table, token) == table

\* get_current_user, line 60: token_data = active_tokens.get(token)
WhoamiGet ==
    /\ Free
    /\ \E t \in Tokens :
         /\ inflight' = Start([NewReq EXCEPT !.pc = "whoami_ret", !.op = "whoami",
                                             !.token = t,
                                             !.token_data = DictGet(active_tokens, t)])
         /\ active_tokens' = TableAfterGet(active_tokens, t)
    /\ UNCHANGED <<fake_users_db, now, issuer, live>>

\* get_current_user, lines 61-66, and read_users_me, line 87
WhoamiReturn ==
    \E r \in At("whoami_ret") :
      /\ inflight' = Move(r, Answer(r, CurrentUser(r.token_data)))
      /\ UNCHANGED <<fake_users_db, active_tokens, now, issuer, live>>

\* --------------------------------------------------------------- logout
\* POST /logout as one uninterrupted call on the table: its answer
logout(token) == IF DictHas(active_tokens, token) THEN LoggedOut ELSE InvalidToken

\* logout, line 73: `if token in active_tokens`; when it is not, lines 77-80
LogoutCheck ==
    /\ Free
    /\ \E t \in Tokens :
         LET r == [NewReq EXCEPT !.pc = "logout_del", !.op = "logout", !.token = t]
         IN inflight' = Start(IF DictHas(active_tokens, t) THEN r
                              ELSE Answer(r, InvalidToken))
    /\ UNCHANGED <<fake_users_db, active_tokens, now, issuer, live>>

\* logout, lines 74-75: `del active_tokens[token]`, which raises KeyError when
\* the key has gone since the test of line 73
LogoutDel ==
    \E r \in At("logout_del") :
      LET t == r.token
      IN /\ IF t \in DOMAIN active_tokens
            THEN /\ active_tokens' = DictDel(active_tokens, t)
                 /\ live' = [x \in DOMAIN live \ {t} |-> live[x]]
                 /\ inflight' = Move(r, Answer(r, LoggedOut))
            ELSE /\ inflight' = Move(r, Answer(r, InternalError))
                 /\ UNCHANGED <<active_tokens, live>>
         /\ UNCHANGED <<fake_users_db, now, issuer>>

\* ------------------------------------------------------------- response
\* the response is sent and the worker thread is free again
Respond ==
    \E r \in At("respond") :
      /\ inflight' = Leave(r)
      /\ UNCHANGED <<fake_users_db, active_tokens, now, issuer, live>>

\* ---------------------------------------------------------------- clock
Tick ==
    /\ now < MaxTime
    /\ now' = now + 1
    /\ UNCHANGED <<fake_users_db, active_tokens, inflight, issuer, live>>

\* ----------------------------------------------------------------- spec
Init ==
    /\ fake_users_db = StaticUsers
    /\ active_tokens = <<>>
    /\ now = 0
    /\ inflight = EmptyBag
    /\ issuer = [t \in Tokens |-> {}]
    /\ live = <<>>

Next ==
    \/ Tick
    \/ LoginFail
    \/ LoginDraw
    \/ LoginStore
    \/ WhoamiGet
    \/ WhoamiReturn
    \/ LogoutCheck
    \/ LogoutDel
    \/ Respond

Spec == Init /\ [][Next]_vars

\* Requests served one at a time: a request starts only when none is being handled.
Quiet == \A r \in BagToSet(inflight) : r.pc = "respond"

SeqNext ==
    \/ Tick
    \/ Quiet /\ LoginFail
    \/ Quiet /\ LoginDraw
    \/ LoginStore
    \/ Quiet /\ WhoamiGet
    \/ WhoamiReturn
    \/ Quiet /\ LogoutCheck
    \/ LogoutDel
    \/ Respond

SeqSpec == Init /\ [][SeqNext]_vars

\* =================================================================
\* Properties
\* =================================================================
\* the tokens some login has returned
issued == {t \in Tokens : issuer[t] # {}}

\* a logout of t has succeeded since t was last returned by a login
Revoked(t) == t \in issued /\ t \notin DOMAIN live

\* the session of t has outlived its lifetime: now > expires_at = created_at + TTL
Expired(t) == t \in DOMAIN live /\ now > live[t].created_at + TTL

\* a request that the step puts into the bag (newly started, or moved on)
Entered(r) == CopiesIn(r, inflight') > CopiesIn(r, inflight)

\* the answered requests of one endpoint
Answered(op) == {r \in At("respond") : r.op = op}

\* C1: for a token t returned by a login of user u, as long as no logout of t
\* has succeeded since and t has not expired, whoami(t) succeeds and returns
\* exactly u.
C1_WhoamiReturnsIssuer ==
    \A t \in DOMAIN live :
        ~Expired(t) => whoami(t) = UserResponse(live[t].username)

\* C1 witness: a whoami of a live token has been answered with its user while
\* another token has been logged out.
C1_Witness ==
    \E r \in Answered("whoami"), t2 \in Tokens :
        /\ r.token \in DOMAIN live
        /\ ~Expired(r.token)
        /\ r.resp = UserResponse(live[r.token].username)
        /\ t2 # r.token
        /\ Revoked(t2)

\* C2: once a logout of t has succeeded, whoami(t) fails with 401 in every
\* later state, whatever is done next.  (Step form: from a state in which t
\* is logged out, no step leads to a state where whoami(t) succeeds.)
C2_AfterLogoutNotFound ==
    [][\A t \in Tokens : Revoked(t) => (whoami(t))' = InvalidToken]_vars

\* C3: a login with a registered username and its secret succeeds and returns
\* a token no earlier login has returned.
C3_LoginFreshToken ==
    [][\A r \in At("login_store") :
          CopiesIn(r, inflight') < CopiesIn(r, inflight) =>
              /\ Entered(Answer(r, TokenResponse(r.token)))
              /\ r.token \notin issued]_vars

\* C4: a login with an unknown username and a login with a wrong secret are
\* both answered 401, and with the same answer.
C4_LoginErrorUniform ==
    \A r \in Answered("login") :
        (\/ r.username \notin DOMAIN fake_users_db
         \/ /\ r.username \in DOMAIN fake_users_db
            /\ r.password # "wonderland")
        => /\ r.resp.status = 401
           /\ \A r2 \in Answered("login") : r2.resp.status = 401 => r2.resp = r.resp

\* C4 witness: both failures have been answered, one for an unknown username
\* and one for a wrong secret.
C4_Witness ==
    \E r1, r2 \in Answered("login") :
        /\ r1.username \notin DOMAIN fake_users_db
        /\ r2.username \in DOMAIN fake_users_db
        /\ r2.password # "wonderland"
        /\ r1.resp.status = 401
        /\ r2.resp.status = 401

\* C5: once the lifetime of the session of t has elapsed, whoami(t) fails.
C5_ExpiredWhoamiFails ==
    \A t \in DOMAIN live : Expired(t) => whoami(t).status = 401

C7_ConcurrentLogoutOneWins ==
    \A r \in Answered("logout") : r.resp.status \in {200, 401}

\* C8: the logins in flight together, each having drawn its token, hold
\* pairwise different tokens.
C8_ConcurrentLoginsDistinct ==
    LET drawn == {r \in BagToSet(inflight) :
                    r.op = "login" /\ (r.pc = "login_store" \/ r.resp.status = 200)}
    IN \A r1, r2 \in drawn :
          /\ CopiesIn(r1, inflight) = 1
          /\ r1 # r2 => r1.token # r2.token

\* C9: a whoami is answered with a user the token was issued to or with 401,
\* its looked-up record is a whole record or None, and when no handler is
\* running the table holds exactly the tokens issued and not logged out since.
C9_ResolveRevokeViews ==
    /\ \A r \in Answered("whoami") :
          \/ r.resp = InvalidToken
          \/ \E u \in issuer[r.token] : r.resp = UserResponse(u)
    /\ \A r \in At("whoami_ret") :
          \/ r.token_data = None
          \/ /\ r.token_data.username \in issuer[r.token]
             /\ r.token_data.created_at \in 0..now
    /\ Quiet => DOMAIN active_tokens = DOMAIN live

\* C9 witness: a whoami of t answered with the user (the view before the
\* logout) and a logout of t answered 200, all handlers finished.
C9_Witness ==
    /\ Quiet
    /\ \E r1 \in Answered("whoami"), r2 \in Answered("logout") :
          /\ r1.token = r2.token
          /\ r1.resp.status = 200
          /\ r2.resp = LoggedOut
          /\ r1.token \notin DOMAIN active_tokens

\* C10: no step replaces the record of a token that is in the table.
C10_NoOverwrite ==
    [][\A t \in DOMAIN active_tokens :
          t \in DOMAIN active_tokens' => active_tokens'[t] = active_tokens[t]]_vars

\* C11: every token in the session table maps to a username that is a key of
\* the credential store.
C11_SessionUserRegistered ==
    \A t \in DOMAIN active_tokens :
        active_tokens[t].username \in DOMAIN fake_users_db

\* C11 witness: a session is in the table after a login of an unknown user
\* has been refused.
C11_Witness ==
    /\ active_tokens # <<>>
    /\ \E r \in Answered("login") :
          r.username \notin DOMAIN fake_users_db /\ r.resp.status = 401

\* C12: a successful login adds one new record to the session table and leaves
\* every record already there unchanged, earlier sessions of the same user
\* included, which keep resolving to their user.
C12_LoginAddsOneRecord ==
    [][\A r \in At("login_store") :
          CopiesIn(r, inflight') < CopiesIn(r, inflight) =>
              /\ DOMAIN active_tokens' = DOMAIN active_tokens \cup {r.token}
              /\ Cardinality(DOMAIN active_tokens') = Cardinality(DOMAIN active_tokens) + 1
              /\ \A x \in DOMAIN active_tokens :
                    /\ active_tokens'[x] = active_tokens[x]
                    /\ (whoami(x))' = whoami(x)]_vars

\* C13: a successful logout of t removes exactly the record of t and leaves
\* every other record of the session table unchanged, other sessions of the
\* same user included.
C13_LogoutRemovesOnlyItsRecord ==
    [][\A r \in BagToSet(inflight') :
          (r.op = "logout" /\ r.resp = LoggedOut /\ Entered(r)) =>
              /\ r.token \in DOMAIN active_tokens
              /\ DOMAIN active_tokens' = DOMAIN active_tokens \ {r.token}
              /\ \A x \in DOMAIN active_tokens' :
                    active_tokens'[x] = active_tokens[x]]_vars

\* C13 witness: a logout of one token has been answered 200 while another
\* session of the same user is still in the table, as its login stored it.
C13_Witness ==
    \E r \in Answered("logout"), t2 \in DOMAIN active_tokens :
        /\ r.resp = LoggedOut
        /\ r.token \notin DOMAIN active_tokens
        /\ t2 # r.token
        /\ t2 \in DOMAIN live
        /\ active_tokens[t2] = live[t2]
        /\ issuer[r.token] = issuer[t2]

\* C14: a token that was never issued, one that was logged out and one that
\* has expired all get the same 401 answer, from whoami and from logout.
C14_UnauthorizedUniform ==
    \A t \in Tokens :
        (t \notin issued \/ Revoked(t) \/ Expired(t)) =>
            /\ whoami(t) = InvalidToken
            /\ logout(t) = InvalidToken

\* the session records whose expires_at = created_at + TTL is earlier than now
Stale == {t \in DOMAIN active_tokens : active_tokens[t].created_at + TTL < now}

\* C15: the program has a sweep: whenever records have expired, a step is
\* possible that removes every expired record from the session table and
\* leaves all other records unchanged.
C15_SweepRemovesExpired ==
    Stale # {} =>
        ENABLED (/\ Next
                 /\ active_tokens' = [x \in DOMAIN active_tokens \ Stale |-> active_tokens[x]])

\* C16: the credential store stays as the module created it: no login, logout
\* or whoami, successful or failed, adds, removes or changes a record of it.
C16_CredentialStoreImmutable == fake_users_db = StaticUsers

\* C16 witness: a login of an unknown user has been refused, a session has
\* been logged out and another is in the table, and the store is unchanged.
C16_Witness ==
    /\ fake_users_db = StaticUsers
    /\ \E r \in Answered("login") : r.username = "bob" /\ r.resp = InvalidCredentials
    /\ \E t \in Tokens : Revoked(t)
    /\ active_tokens # <<>>

\* C17: in every state and for every token, logout of the token would succeed
\* exactly when whoami of it would: the membership test of the one and the
\* truth test of the looked-up record of the other agree.
C17_EndpointsAgree ==
    \A t \in Tokens : (logout(t) = LoggedOut) <=> (whoami(t).status = 200)

\* C17 witness: both endpoints have refused one token, which is not in the
\* table, while both would accept another, which is.
C17_Witness ==
    \E r1 \in Answered("whoami"), r2 \in Answered("logout"), t \in DOMAIN active_tokens :
        /\ r1.token = r2.token
        /\ r1.resp = InvalidToken
        /\ r2.resp = InvalidToken
        /\ logout(r1.token) = InvalidToken
        /\ whoami(r1.token) = InvalidToken
        /\ logout(t) = LoggedOut
        /\ whoami(t).status = 200

\* C18: a token leaves the session table only in a step in which a logout
\* presenting exactly that token is answered 200: no login, whoami, failed
\* logout or logout of another token removes it.
C18_OnlyLogoutRemoves ==
    [][\A t \in DOMAIN active_tokens :
          t \notin DOMAIN active_tokens' =>
              \E r \in BagToSet(inflight') :
                  /\ r.op = "logout"
                  /\ r.token = t
                  /\ r.resp = LoggedOut
                  /\ Entered(r)]_vars

\* C18 witness: one token has been logged out; since then a logout of it and
\* a login have been refused, and the other session is still in the table.
C18_Witness ==
    \E r1 \in Answered("logout"), r2 \in Answered("login"), t \in DOMAIN active_tokens :
        /\ Revoked(r1.token)
        /\ r1.resp = InvalidToken
        /\ r2.resp = InvalidCredentials
        /\ t # r1.token
        /\ t \in DOMAIN live

\* the credentials of a login request are not a registered pair
BadCredentials(r) ==
    IF r.username \in DOMAIN StaticUsers
    THEN r.password # StaticUsers[r.username].password
    ELSE TRUE

\* C19: a login with an unknown username or a wrong password is answered 401
\* at once: it draws no token, stores no record and leaves the session table
\* unchanged.
C19_FailedLoginNoSession ==
    [][\A r \in BagToSet(inflight') :
          (r.op = "login" /\ Entered(r) /\ BadCredentials(r)) =>
              /\ r.pc = "respond"
              /\ r.resp.status = 401
              /\ r.token \notin Tokens
              /\ active_tokens' = active_tokens
              /\ issuer' = issuer]_vars

\* C19 witness: a login of a registered user with a wrong password has been
\* refused while a session is in the table, which holds the issued tokens only.
C19_Witness ==
    \E r \in Answered("login") :
        /\ r.username = "alice"
        /\ r.password = "wrong"
        /\ r.resp.status = 401
        /\ active_tokens # <<>>
        /\ DOMAIN active_tokens = issued

\* C20: no step of a whoami, neither its lookup nor its answer, whether 200 or
\* 401, adds, removes or changes a record of the session table.
C20_WhoamiReadOnly ==
    [][\A r \in BagToSet(inflight') :
          (r.op = "whoami" /\ Entered(r)) => active_tokens' = active_tokens]_vars

\* C20 witness: one whoami has been answered 200 and another 401, and the
\* session asked about is in the table as its login stored it.
C20_Witness ==
    \E r1, r2 \in Answered("whoami") :
        /\ r1.resp.status = 200
        /\ r2.resp = InvalidToken
        /\ r1.token \in DOMAIN active_tokens
        /\ r1.token \in DOMAIN live
        /\ active_tokens[r1.token] = live[r1.token]

====
